---------------------------- MODULE Spec2Model ----------------------------
(***************************************************************************)
(* A state-machine model of the LeetCode Tracker Agent command line run    *)
(* (leetcode_tracker_agent/cli.py: main) together with the adapters it     *)
(* calls (leetcode_api.py, summary.py, google_docs.py, anki_deck.py).      *)
(*                                                                         *)
(* One behaviour is one run of main().  Every external service call is one *)
(* action; what the service answers is chosen nondeterministically from a  *)
(* small set of answers.  Python values are modelled as they are: strings  *)
(* are TLA+ strings, f-strings are concatenations, None is a sentinel.     *)
(***************************************************************************)
EXTENDS Integers, Sequences, FiniteSets, TLC

(***************************************************************************)
(* Bounds of the model.                                                    *)
(***************************************************************************)
\* most submissions the platform returns in one listing answer
MaxSubs == 2
\* number of distinct problem slugs the platform knows
NumSlugs == 2
\* most submissions in an answer handed to get_recent_solved_problems directly
MaxInputSubs == 3

(***************************************************************************)
(* Python values.                                                          *)
(***************************************************************************)
\* Python's None (a sentinel that is no string of the program)
None == "<None>"

\* bool(v) for the optional strings of the command line
Truthy(v) == v # None /\ v # ""

\* str(v) / f"{v}"
Str(v) == IF v = None THEN "None" ELSE v

\* the outcome of a call: it returned value, or it raised msg
Return(v) == [raised |-> FALSE, msg |-> "", value |-> v]
Raise(m) == [raised |-> TRUE, msg |-> m, value |-> None]

(***************************************************************************)
(* The platform's data.                                                    *)
(***************************************************************************)
SlugNames == <<"two-sum", "lru-cache", "add-two-numbers", "word-break">>
TitleNames == <<"Two Sum", "LRU Cache", "Add Two Numbers", "Word Break">>
Slugs == {SlugNames[n] : n \in 1..NumSlugs}
SubmissionTitle(slug) == TitleNames[CHOOSE n \in 1..NumSlugs : SlugNames[n] = slug]
\* the title the question endpoint reports (numbered, as on the site)
QuestionTitle(slug) == "Q. " \o SubmissionTitle(slug)

Statuses == {"Accepted", "Wrong Answer"}
\* one entry of recentSubmissionList
SubmissionOf(st, slug) ==
    [statusDisplay |-> st, titleSlug |-> slug, title |-> SubmissionTitle(slug)]
SubmissionLists ==
    UNION {[1..n -> {SubmissionOf(st, sl) : st \in Statuses, sl \in Slugs}] : n \in 0..MaxSubs}

(***************************************************************************)
(* String helpers (str.lower, "in", str.strip).                            *)
(***************************************************************************)
UpperChars == "ABCDEFGHIJKLMNOPQRSTUVWXYZ"
LowerChars == "abcdefghijklmnopqrstuvwxyz"

LowerChar(c) ==
    IF \E n \in 1..Len(UpperChars) : SubSeq(UpperChars, n, n) = c
    THEN LET n == CHOOSE n \in 1..Len(UpperChars) : SubSeq(UpperChars, n, n) = c
         IN  SubSeq(LowerChars, n, n)
    ELSE c

\* the status compared as it is, without lower()
Lower_Identity(s) == s

RECURSIVE Lower(_)
Lower(s) ==
    IF Len(s) = 0 THEN ""
    ELSE LowerChar(SubSeq(s, 1, 1)) \o Lower(SubSeq(s, 2, Len(s)))

\* t in s
Contains(s, t) ==
    \E n \in 1..(Len(s) - Len(t) + 1) : SubSeq(s, n, n + Len(t) - 1) = t

IsSpace(c) == c \in {" ", "\n", "\t", "\r"}

RECURSIVE Strip(_)
Strip(s) ==
    IF Len(s) = 0 THEN s
    ELSE IF IsSpace(SubSeq(s, 1, 1)) THEN Strip(SubSeq(s, 2, Len(s)))
    ELSE IF IsSpace(SubSeq(s, Len(s), Len(s))) THEN Strip(SubSeq(s, 1, Len(s) - 1))
    ELSE s

(***************************************************************************)
(* types.py                                                                *)
(***************************************************************************)
LeetCodeProblem(title, slug, difficulty, tags, url) ==
    [title |-> title, slug |-> slug, difficulty |-> difficulty, tags |-> tags, url |-> url]

ProblemSummary(problem, summary) ==
    [problem |-> problem, summary |-> summary, solution_notes |-> None]

ProblemUrl(slug) == "https://leetcode.com/problems/" \o Str(slug) \o "/"

(***************************************************************************)
(* leetcode_api.py                                                         *)
(*                                                                         *)
(* An HTTP answer is [fails, exc, errors, data]: fails says that post(),   *)
(* raise_for_status() or json() raised exc; errors says that the decoded   *)
(* body has an "errors" key; data is the value of its "data" key.          *)
(***************************************************************************)
HttpFailure(exc) == [fails |-> TRUE, exc |-> exc, errors |-> FALSE, data |-> <<>>]
GraphqlErrors == [fails |-> FALSE, exc |-> "", errors |-> TRUE, data |-> <<>>]
GraphqlData(d) == [fails |-> FALSE, exc |-> "", errors |-> FALSE, data |-> d]

\* the "errors" key of the answer is not looked at
_graphql_request_IgnoresErrors(resp) ==
    IF resp.fails THEN Raise("Failed to execute GraphQL request: " \o resp.exc)
    ELSE Return(resp.data)

_graphql_request(resp) ==
    IF resp.fails THEN Raise("Failed to execute GraphQL request: " \o resp.exc)
    ELSE IF resp.errors THEN Raise("GraphQL errors: [...]")
    ELSE Return(resp.data)

\* the loop without the "slug in seen" test
RECURSIVE CollectSolved_NoSeen(_, _, _)
CollectSolved_NoSeen(submissions, problems, seen) ==
    IF submissions = <<>> THEN problems
    ELSE LET sub == Head(submissions)
             rest == Tail(submissions)
         IN  IF ~Contains(Lower(sub.statusDisplay), "accept")
                  \/ ~Truthy(sub.titleSlug) \/ ~Truthy(sub.title)
             THEN CollectSolved_NoSeen(rest, problems, seen)
             ELSE CollectSolved_NoSeen(rest,
                      Append(problems,
                             LeetCodeProblem(sub.title, sub.titleSlug, "", <<>>,
                                             ProblemUrl(sub.titleSlug))),
                      seen)

\* the loop over submissions, carrying problems and seen
RECURSIVE CollectSolved(_, _, _)
CollectSolved(submissions, problems, seen) ==
    IF submissions = <<>> THEN problems
    ELSE LET sub == Head(submissions)
             rest == Tail(submissions)
             status == Lower(sub.statusDisplay)
             slug == sub.titleSlug
             title == sub.title
         IN  IF ~Contains(status, "accept") THEN CollectSolved(rest, problems, seen)
             ELSE IF ~Truthy(slug) \/ ~Truthy(title) \/ slug \in seen
                  THEN CollectSolved(rest, problems, seen)
             ELSE CollectSolved(rest,
                      Append(problems,
                             LeetCodeProblem(title, slug, "", <<>>, ProblemUrl(slug))),
                      seen \cup {slug})

\* resp.data is the recentSubmissionList of the answer
get_recent_solved_problems(resp) ==
    LET data == _graphql_request(resp)
    IN  IF data.raised THEN data
        ELSE Return(CollectSolved(data.value, <<>>, {}))

\* the question object of the answer: <<>> for null, <<q>> otherwise
Question(slug, difficulty) ==
    [title |-> QuestionTitle(slug), titleSlug |-> slug, difficulty |-> difficulty,
     content |-> "<p>Given ...</p>", topicTags |-> <<"Array">>]

\* returns <<>> for None and <<[problem, description_html]>> for the tuple
get_problem_details(slug, resp) ==
    LET data == _graphql_request(resp)
    IN  IF data.raised THEN data
        ELSE LET q == data.value
             IN  IF q = <<>> THEN Return(<<>>)
                 ELSE Return(<<[problem |-> LeetCodeProblem(q[1].title, q[1].titleSlug,
                                                q[1].difficulty, q[1].topicTags,
                                                ProblemUrl(q[1].titleSlug)),
                                description_html |-> q[1].content]>>)

(***************************************************************************)
(* summary.py                                                              *)
(*                                                                         *)
(* An answer of the openai package is [importable, fails, exc, choices].   *)
(* The result also says whether a completion request was sent and what     *)
(* openai.api_key is afterwards.                                           *)
(***************************************************************************)
PyOr(a, b) == IF Truthy(a) THEN a ELSE b

\* an outcome of summarize_problem: the summary is <<>> or <<ProblemSummary>>
Summarized(raised, msg, value, sent, api_key) ==
    [raised |-> raised, msg |-> msg, value |-> value, sent |-> sent, api_key |-> api_key]

summarize_problem(problem, description, openai_api_key, module_key, resp) ==
    LET api_key == PyOr(PyOr(openai_api_key, module_key), None)
    IN  IF ~resp.importable
        THEN Summarized(TRUE, "The 'openai' package is required to summarise problems.",
                        <<>>, FALSE, module_key)
        ELSE IF ~Truthy(api_key)
        THEN Summarized(TRUE, "No OpenAI API key provided.", <<>>, FALSE, module_key)
        ELSE IF resp.fails
        THEN Summarized(TRUE, resp.exc, <<>>, TRUE, api_key)
        ELSE IF resp.choices = <<>>
        THEN Summarized(TRUE, "list index out of range", <<>>, TRUE, api_key)
        ELSE Summarized(FALSE, "", <<ProblemSummary(problem, Strip(resp.choices[1]))>>,
                        TRUE, api_key)

(***************************************************************************)
(* google_docs.py                                                          *)
(*                                                                         *)
(* build is None when googleapiclient is not installed; resp is the        *)
(* outcome of batchUpdate(...).execute().                                  *)
(***************************************************************************)
append_to_doc(doc_id, text, credentials, build, resp) ==
    IF build = None
    THEN Raise("The google-api-python-client library is required for Google Docs support.")
    ELSE IF resp.fails THEN Raise(resp.exc)
    ELSE Return(None)

(***************************************************************************)
(* anki_deck.py                                                            *)
(*                                                                         *)
(* An AnkiConnect answer is [fails, exc, error, result]: fails says that   *)
(* post(), raise_for_status() or json() raised exc; error is the "error"   *)
(* field of the decoded body (None for null).                              *)
(***************************************************************************)
AnkiFailure(exc) == [fails |-> TRUE, exc |-> exc, error |-> None, result |-> None]
AnkiError(e) == [fails |-> FALSE, exc |-> "", error |-> e, result |-> None]
AnkiResult(r) == [fails |-> FALSE, exc |-> "", error |-> None, result |-> r]

_invoke(resp) ==
    IF resp.fails THEN Raise("Failed to call AnkiConnect: " \o resp.exc)
    ELSE IF Truthy(resp.error) THEN Raise("AnkiConnect error: " \o resp.error)
    ELSE Return(resp.result)

\* every error of createDeck is raised again
ensure_deck_exists_Strict(deck_name, resp) == _invoke(resp)

\* every error of createDeck is swallowed
ensure_deck_exists_SwallowsAll(deck_name, resp) == Return(None)

ensure_deck_exists(deck_name, resp) ==
    LET r == _invoke(resp)
    IN  IF r.raised /\ ~Contains(Lower(r.msg), "deck already exists")
        THEN r
        ELSE Return(None)

add_note_to_anki(deck_name, model_name, front, back, resp) ==
    _invoke(resp)


(***************************************************************************)
(* What the services may answer.                                           *)
(***************************************************************************)
ListingResponses ==
    {HttpFailure("timeout"), GraphqlErrors} \cup {GraphqlData(l) : l \in SubmissionLists}

Difficulties == {"Easy", None}
DetailResponses(slug) ==
    {HttpFailure("timeout"), GraphqlErrors, GraphqlData(<<>>)}
        \cup {GraphqlData(<<Question(slug, d)>>) : d \in Difficulties}

OpenAIResponses ==
    { [importable |-> FALSE, fails |-> FALSE, exc |-> "", choices |-> <<>>],
      [importable |-> TRUE, fails |-> TRUE, exc |-> "quota exceeded", choices |-> <<>>],
      [importable |-> TRUE, fails |-> FALSE, exc |-> "", choices |-> <<>>],
      [importable |-> TRUE, fails |-> FALSE, exc |-> "", choices |-> <<" Find two indices.\n">>] }

DocsResponses == {[fails |-> FALSE, exc |-> ""], [fails |-> TRUE, exc |-> "HttpError 403"]}

\* import of google.oauth2 and Credentials.from_service_account_file
CredentialOutcomes == {"no google-auth", "bad key file", "loaded"}

CreateDeckResponses ==
    {AnkiFailure("connection refused"), AnkiError("Deck already exists"),
     AnkiError("collection is not available"), AnkiResult("1")}

AddNoteResponses ==
    {AnkiFailure("connection refused"),
     AnkiError("cannot create note because it is a duplicate"), AnkiResult("1")}

(***************************************************************************)
(* cli.py: the run.                                                        *)
(***************************************************************************)
VARIABLES
    args,              \* the parsed command line
    build,             \* google_docs.build (None when the import failed)
    api_key,           \* openai.api_key
    pc,                \* where main() is
    problems,          \* the listing
    idx,               \* position of the for loop in problems (from 1)
    docs_credentials,
    detailed_problem,
    description_html,
    summary_text,
    calls,             \* the adapter calls made so far, in order
    document,          \* the texts appended to the document
    decks,             \* the decks the flashcard service was asked to create
    notes,             \* the notes added to the flashcard service
    printed,           \* what the run printed
    exit_code,         \* the exit status once pc = "exit"
    last               \* the last call a caller of the package functions made

vars == <<args, build, api_key, pc, problems, idx, docs_credentials, detailed_problem,
          description_html, summary_text, calls, document, decks, notes, printed, exit_code,
          last>>

\* a flag that was omitted, given empty, or given a value
Flag(v) == {None, "", v}

ArgSets == [doc_id : Flag("doc-1"), service_account_key : Flag("key.json"),
            anki_deck : Flag("LeetCode"), openai_key : Flag("sk-1"),
            anki_model : {"Basic"}, tags : {<<"leetcode">>}]

NoProblem == LeetCodeProblem("", "", "", <<>>, "")

\* one adapter call: for problem k (0: for the run); out is "returned", "none"
\* (returned None instead of a value) or "raised"
Call(op, k, out) == [op |-> op, k |-> k, out |-> out]
Outcome(r) == IF r.raised THEN "raised" ELSE "returned"

\* no package function was called from outside main
NoCall == [fn |-> "none"]

Init ==
    /\ last = NoCall
    /\ args \in ArgSets
    /\ build \in {None, "build"}
    /\ api_key = None
    /\ pc = "list"
    /\ problems = <<>>
    /\ idx = 0
    /\ docs_credentials = None
    /\ detailed_problem = NoProblem
    /\ description_html = ""
    /\ summary_text = ""
    /\ calls = <<>>
    /\ document = <<>>
    /\ decks = {}
    /\ notes = <<>>
    /\ printed = <<>>
    /\ exit_code = -1

\* parser.error taken for a call that ends the run with status 0
ParserError_ExitZero(message) ==
    /\ printed' = Append(printed, "error: " \o message)
    /\ exit_code' = 0
    /\ pc' = "exit"

\* parser.error(message): print the message and exit with status 2
ParserError(message) ==
    /\ printed' = Append(printed, "error: " \o message)
    /\ exit_code' = 2
    /\ pc' = "exit"

\* an exception nobody catches: the traceback is printed, exit status 1
Uncaught(message) ==
    /\ printed' = Append(printed, "Traceback (most recent call last): " \o message)
    /\ exit_code' = 1
    /\ pc' = "exit"

\* return 0
ReturnZero ==
    /\ exit_code' = 0
    /\ pc' = "exit"

\* a listing failure taken for an empty listing
OnListingError_Swallowed(msg) ==
    /\ problems' = <<>>
    /\ printed' = Append(printed, "No recently solved problems found.")
    /\ ReturnZero

\* lines 112-113: except Exception around the listing
OnListingError(msg) ==
    /\ ParserError("Failed to retrieve recent problems: " \o msg)
    /\ UNCHANGED problems

\* the empty listing is not told apart
NothingToDo_Never(listed) == FALSE

\* line 115: not problems
NothingToDo(listed) == listed = <<>>

\* lines 109-117
Listing ==
    /\ pc = "list"
    /\ \E resp \in ListingResponses :
         LET r == get_recent_solved_problems(resp)
         IN  /\ calls' = Append(calls, Call("get_recent_solved_problems", 0, Outcome(r)))
             /\ IF r.raised
                THEN OnListingError(r.msg)
                ELSE /\ problems' = r.value
                     /\ IF NothingToDo(r.value)
                        THEN /\ printed' = Append(printed, "No recently solved problems found.")
                             /\ ReturnZero
                        ELSE /\ pc' = "docs"
                             /\ UNCHANGED <<printed, exit_code>>
    /\ UNCHANGED <<last, args, build, api_key, idx, docs_credentials, detailed_problem,
                   description_html, summary_text, document, decks, notes>>

\* "or" written for "and"
DocsRequested_Either == Truthy(args.doc_id) \/ Truthy(args.service_account_key)

\* line 121: args.doc_id and args.service_account_key
DocsRequested == Truthy(args.doc_id) /\ Truthy(args.service_account_key)

\* line 133: args.doc_id or args.service_account_key
DocsHalfRequested == Truthy(args.doc_id) \/ Truthy(args.service_account_key)

\* lines 119-134
PrepareDocs ==
    /\ pc = "docs"
    /\ IF DocsRequested
       THEN \E outcome \in CredentialOutcomes :
              CASE outcome = "no google-auth" ->
                     /\ ParserError("google-auth and google-api-python-client must be installed to use Google Docs features.")
                     /\ UNCHANGED docs_credentials
                [] outcome = "bad key file" ->
                     /\ ParserError("Failed to load service account credentials: No such file")
                     /\ UNCHANGED docs_credentials
                [] outcome = "loaded" ->
                     /\ docs_credentials' = "Credentials"
                     /\ pc' = "deck"
                     /\ UNCHANGED <<printed, exit_code>>
       ELSE IF DocsHalfRequested
       THEN /\ ParserError("Both --doc-id and --service-account-key must be provided to enable Google Docs updates.")
            /\ UNCHANGED docs_credentials
       ELSE /\ pc' = "deck"
            /\ UNCHANGED <<docs_credentials, printed, exit_code>>
    /\ UNCHANGED <<last, args, build, api_key, problems, idx, detailed_problem,
                   description_html, summary_text, calls, document, decks, notes>>

\* a deck failure that is only logged
OnDeckError_Continue(msg) ==
    /\ pc' = "details"
    /\ idx' = 1
    /\ UNCHANGED <<printed, exit_code>>

\* lines 140-141: except Exception around ensure_deck_exists
OnDeckError(msg) ==
    /\ ParserError("Failed to ensure Anki deck exists: " \o msg)
    /\ UNCHANGED idx

\* lines 136-144
PrepareDeck ==
    /\ pc = "deck"
    /\ IF Truthy(args.anki_deck)
       THEN \E resp \in CreateDeckResponses :
              LET r == ensure_deck_exists(args.anki_deck, resp)
              IN  /\ calls' = Append(calls, Call("ensure_deck_exists", 0, Outcome(r)))
                  /\ decks' = IF _invoke(resp).raised THEN decks
                              ELSE decks \cup {args.anki_deck}
                  /\ IF r.raised
                     THEN OnDeckError(r.msg)
                     ELSE /\ pc' = "details"
                          /\ idx' = 1
                          /\ UNCHANGED <<printed, exit_code>>
       ELSE /\ pc' = "details"
            /\ idx' = 1
            /\ UNCHANGED <<calls, decks, printed, exit_code>>
    /\ UNCHANGED <<last, args, build, api_key, problems, docs_credentials, detailed_problem,
                   description_html, summary_text, document, notes>>

\* a placeholder difficulty in the fallback
Fallback_Unknown(problem) ==
    [problem |-> [problem EXCEPT !.difficulty = "Unknown"], description_html |-> ""]

\* lines 149-150: what stands in for the details that are absent
Fallback(problem) == [problem |-> problem, description_html |-> ""]

\* lines 146-152
FetchDetails ==
    /\ pc = "details"
    /\ LET problem == problems[idx]
       IN  \E resp \in DetailResponses(problem.slug) :
             LET details == get_problem_details(problem.slug, resp)
             IN  IF details.raised
                 THEN /\ calls' = Append(calls, Call("get_problem_details", idx, "raised"))
                      /\ Uncaught(details.msg)
                      /\ UNCHANGED <<detailed_problem, description_html>>
                 ELSE IF details.value = <<>>
                 THEN /\ calls' = Append(calls, Call("get_problem_details", idx, "none"))
                      /\ printed' = Append(printed,
                             "Warning: Could not fetch details for " \o Str(problem.title))
                      /\ detailed_problem' = Fallback(problem).problem
                      /\ description_html' = Fallback(problem).description_html
                      /\ pc' = "summarise"
                      /\ UNCHANGED exit_code
                 ELSE /\ calls' = Append(calls, Call("get_problem_details", idx, "returned"))
                      /\ detailed_problem' = details.value[1].problem
                      /\ description_html' = details.value[1].description_html
                      /\ pc' = "summarise"
                      /\ UNCHANGED <<printed, exit_code>>
    /\ UNCHANGED <<last, args, build, api_key, problems, idx, docs_credentials, summary_text,
                   document, decks, notes>>

\* a summarisation failure that falls back to the title
OnSummariseError_Continue(problem, msg) ==
    /\ summary_text' = problem.title
    /\ pc' = "append"
    /\ UNCHANGED <<printed, exit_code>>

\* lines 166-167: except Exception around summarize_problem
OnSummariseError(problem, msg) ==
    /\ ParserError("Failed to summarise problem " \o Str(problem.title) \o ": " \o msg)
    /\ UNCHANGED summary_text

\* no summary rendered as the empty text
SummaryText_Empty(summary_result, problem) ==
    IF summary_result # <<>> THEN summary_result[1].summary ELSE ""

\* line 172: summary_result is <<>> for None
SummaryText(summary_result, problem) ==
    IF summary_result # <<>> THEN summary_result[1].summary ELSE problem.title

\* lines 156-172
Summarise ==
    /\ pc = "summarise"
    /\ LET problem == problems[idx]
       IN  IF Truthy(args.openai_key)
           THEN \E resp \in OpenAIResponses :
                  LET r == summarize_problem(detailed_problem, description_html,
                                             args.openai_key, api_key, resp)
                  IN  /\ calls' = Append(calls, Call("summarize_problem", idx, Outcome(r)))
                      /\ api_key' = r.api_key
                      /\ IF r.raised
                         THEN OnSummariseError(problem, r.msg)
                         ELSE /\ summary_text' = SummaryText(r.value, problem)
                              /\ pc' = "append"
                              /\ UNCHANGED <<printed, exit_code>>
           ELSE /\ summary_text' = SummaryText(<<>>, problem)
                /\ pc' = "append"
                /\ UNCHANGED <<calls, api_key, printed, exit_code>>
    /\ UNCHANGED <<last, args, build, problems, idx, docs_credentials, detailed_problem,
                   description_html, document, decks, notes>>

\* lines 178-181
DocText(problem, difficulty, summary) ==
    "\n### " \o Str(problem.title) \o " (" \o Str(difficulty) \o ")\n"
        \o "URL: " \o Str(problem.url) \o "\n\n"
        \o "Summary:\n" \o Str(summary) \o "\n"

\* an append failure that is tried again
OnAppendError_Retry(msg) ==
    /\ printed' = Append(printed, "Retrying: " \o msg)
    /\ pc' = "append"
    /\ UNCHANGED <<document, exit_code>>

\* an append failure that is only skipped
OnAppendError_Continue(msg) ==
    /\ pc' = "note"
    /\ UNCHANGED <<document, printed, exit_code>>

\* lines 184-185: except Exception around the append
OnAppendError(msg) ==
    /\ ParserError("Failed to append to Google Doc: " \o msg)
    /\ UNCHANGED document

\* lines 174-185
AppendDoc ==
    /\ pc = "append"
    /\ LET problem == problems[idx]
       IN  IF Truthy(docs_credentials) /\ Truthy(args.doc_id)
           THEN \E resp \in DocsResponses :
                  LET difficulty == detailed_problem.difficulty
                      text_to_append == DocText(problem, difficulty, summary_text)
                      r == append_to_doc(args.doc_id, text_to_append, docs_credentials,
                                         build, resp)
                  IN  /\ calls' = Append(calls, Call("append_to_doc", idx, Outcome(r)))
                      /\ IF r.raised
                         THEN OnAppendError(r.msg)
                         ELSE /\ document' = Append(document, text_to_append)
                              /\ printed' = Append(printed, "Appended summary for "
                                              \o Str(problem.title) \o " to Google Doc.")
                              /\ pc' = "note"
                              /\ UNCHANGED exit_code
           ELSE /\ pc' = "note"
                /\ UNCHANGED <<calls, document, printed, exit_code>>
    /\ UNCHANGED <<last, args, build, api_key, problems, idx, docs_credentials, detailed_problem,
                   description_html, summary_text, decks, notes>>

\* the card headed by the title the question endpoint reported
CardFront_DetailedTitle(problem, difficulty) ==
    Str(detailed_problem.title) \o " (" \o Str(difficulty) \o ")"

\* line 191
CardFront(problem, difficulty) == Str(problem.title) \o " (" \o Str(difficulty) \o ")"

\* line 192
CardBack(problem, summary) == Str(summary) \o "\n\nURL: " \o Str(problem.url)

\* a card failure that is tried again
OnNoteError_Retry(msg) ==
    /\ printed' = Append(printed, "Retrying: " \o msg)
    /\ pc' = "note"
    /\ UNCHANGED <<notes, idx, exit_code>>

\* lines 201-202: except Exception around the note
OnNoteError(msg) ==
    /\ ParserError("Failed to add note to Anki: " \o msg)
    /\ UNCHANGED <<notes, idx>>

\* a loop that does not move on to the next problem
NextProblem_NoAdvance ==
    IF idx < Len(problems)
    THEN /\ pc' = "details"
         /\ UNCHANGED <<idx, exit_code>>
    ELSE /\ ReturnZero
         /\ UNCHANGED idx

\* the for statement takes the next problem, or main returns 0 (lines 144, 204)
NextProblem ==
    IF idx < Len(problems)
    THEN /\ idx' = idx + 1
         /\ pc' = "details"
         /\ UNCHANGED exit_code
    ELSE /\ ReturnZero
         /\ UNCHANGED idx

\* lines 187-204
AddNote ==
    /\ pc = "note"
    /\ LET problem == problems[idx]
       IN  IF Truthy(args.anki_deck)
           THEN \E resp \in AddNoteResponses :
                  LET difficulty == detailed_problem.difficulty
                      front == CardFront(problem, difficulty)
                      back == CardBack(problem, summary_text)
                      r == add_note_to_anki(args.anki_deck, args.anki_model, front, back, resp)
                  IN  /\ calls' = Append(calls, Call("add_note_to_anki", idx, Outcome(r)))
                      /\ IF r.raised
                         THEN OnNoteError(r.msg)
                         ELSE /\ notes' = Append(notes,
                                     [deckName |-> args.anki_deck, modelName |-> args.anki_model,
                                      Front |-> front, Back |-> back, tags |-> args.tags])
                              /\ printed' = Append(printed, "Added " \o Str(problem.title)
                                              \o " to Anki deck '" \o args.anki_deck \o "'.")
                              /\ NextProblem
           ELSE /\ NextProblem
                /\ UNCHANGED <<calls, notes, printed>>
    /\ UNCHANGED <<last, args, build, api_key, problems, docs_credentials, detailed_problem,
                   description_html, summary_text, document, decks>>

Next ==
    \/ Listing
    \/ PrepareDocs
    \/ PrepareDeck
    \/ FetchDetails
    \/ Summarise
    \/ AppendDoc
    \/ AddNote

Spec == Init /\ [][Next]_vars

\* main is one sequential function and every external call returns or raises:
\* the statement the run stands at is eventually executed
LiveSpec == Spec /\ WF_vars(Next)

(***************************************************************************)
(* The functions of leetcode_api.py called on their own (they are exported *)
(* by __init__.py).  The answer of the platform is drawn at the start; the *)
(* one step applies the function to it.                                    *)
(***************************************************************************)
\* everything of a run of main(), which does not happen here
NoRun ==
    /\ args = [doc_id |-> None, service_account_key |-> None, anki_deck |-> None,
               openai_key |-> None, anki_model |-> "Basic", tags |-> <<>>]
    /\ build = None
    /\ pc = "api"
    /\ problems = <<>>
    /\ idx = 0
    /\ docs_credentials = None
    /\ detailed_problem = NoProblem
    /\ description_html = ""
    /\ summary_text = ""
    /\ calls = <<>>
    /\ document = <<>>
    /\ notes = <<>>
    /\ printed = <<>>
    /\ exit_code = -1

runVars == <<args, build, pc, problems, idx, docs_credentials, detailed_problem,
             description_html, summary_text, calls, document, notes, printed, exit_code>>

\* submissions as the platform may send them: any case of the status, the
\* title possibly null
InputStatuses == {"Accepted", "ACCEPTED", "Wrong Answer"}
InputSubmissions ==
    UNION {{[statusDisplay |-> st, titleSlug |-> sl, title |-> t] :
               st \in InputStatuses, t \in {SubmissionTitle(sl), None}} : sl \in Slugs}
InputSubmissionLists == UNION {[1..n -> InputSubmissions] : n \in 0..MaxInputSubs}

ListingInputs ==
    {HttpFailure("timeout"), GraphqlErrors}
        \cup {GraphqlData(l) : l \in InputSubmissionLists}

DetailInputs ==
    UNION {{[slug |-> sl, resp |-> r] : r \in DetailResponses(sl)} : sl \in Slugs}

\* a call about to be made, and the call once it has returned or raised
Pending(fn, arg) ==
    [fn |-> fn, arg |-> arg, done |-> FALSE, raised |-> FALSE, msg |-> "", value |-> <<>>]
Finished(call, r) ==
    [call EXCEPT !.done = TRUE, !.raised = r.raised, !.msg = r.msg,
                 !.value = IF r.raised THEN <<>> ELSE r.value]

FnInit ==
    /\ NoRun
    /\ api_key = None
    /\ decks = {}
    /\ last \in {Pending("get_recent_solved_problems", resp) : resp \in ListingInputs}
           \cup {Pending("get_problem_details", in) : in \in DetailInputs}

ApplyListing ==
    /\ last.fn = "get_recent_solved_problems" /\ ~last.done
    /\ last' = Finished(last, get_recent_solved_problems(last.arg))
    /\ UNCHANGED <<runVars, api_key, decks>>

ApplyDetails ==
    /\ last.fn = "get_problem_details" /\ ~last.done
    /\ last' = Finished(last, get_problem_details(last.arg.slug, last.arg.resp))
    /\ UNCHANGED <<runVars, api_key, decks>>

FnNext ==
    \/ ApplyListing
    \/ ApplyDetails

FnSpec == FnInit /\ [][FnNext]_vars

(***************************************************************************)
(* A caller that uses ensure_deck_exists and summarize_problem directly,   *)
(* any number of times in any order.  What lasts between the calls is the  *)
(* set of decks the flashcard service has created and openai.api_key.      *)
(***************************************************************************)
DeckNames == {"LeetCode", "Algorithms"}

\* answers to createDeck, among them errors close to "deck already exists"
EnsureResponses ==
    CreateDeckResponses
        \cup {AnkiError("DECK ALREADY EXISTS: LeetCode"), AnkiError("deck exists")}

ClientInit ==
    /\ NoRun
    /\ api_key = None
    /\ decks = {}
    /\ last = NoCall

\* again says that createDeck had succeeded for this name before the call
CallEnsureDeck ==
    /\ \E name \in DeckNames, resp \in EnsureResponses :
         LET r == ensure_deck_exists(name, resp)
         IN  /\ last' = [fn |-> "ensure_deck_exists", deck_name |-> name, resp |-> resp,
                         again |-> name \in decks, raised |-> r.raised, msg |-> r.msg]
             /\ decks' = IF _invoke(resp).raised THEN decks ELSE decks \cup {name}
    /\ UNCHANGED <<runVars, api_key>>

\* module_key is openai.api_key as the call found it
CallSummarize ==
    /\ \E key \in Flag("sk-1"), resp \in OpenAIResponses :
         LET problem == LeetCodeProblem("Two Sum", "two-sum", "Easy", <<"Array">>,
                                        ProblemUrl("two-sum"))
             r == summarize_problem(problem, "<p>Given ...</p>", key, api_key, resp)
         IN  /\ last' = [fn |-> "summarize_problem", openai_api_key |-> key, resp |-> resp,
                         module_key |-> api_key, raised |-> r.raised, msg |-> r.msg,
                         sent |-> r.sent]
             /\ api_key' = r.api_key
    /\ UNCHANGED <<runVars, decks>>

ClientNext ==
    \/ CallEnsureDeck
    \/ CallSummarize

ClientSpec == ClientInit /\ [][ClientNext]_vars

TypeOK ==
    /\ pc \in {"list", "docs", "deck", "details", "summarise", "append", "note", "exit",
              "api"}
    /\ exit_code \in {-1, 0, 1, 2}
    /\ idx \in 0..Len(problems)

(***************************************************************************)
(* Vocabulary of the properties.                                           *)
(***************************************************************************)
ProblemOps == {"get_problem_details", "summarize_problem", "append_to_doc", "add_note_to_anki"}

\* the positions in calls of the calls of op for problem k
Made(op, k) == {n \in DOMAIN calls : calls[n].op = op /\ calls[n].k = k}
MadeOp(op) == {n \in DOMAIN calls : calls[n].op = op}
MadeAny(ops) == {n \in DOMAIN calls : calls[n].op \in ops}
Succeeded(op, k) == \E n \in Made(op, k) : calls[n].out # "raised"
Failed(op, k) == \E n \in Made(op, k) : calls[n].out = "raised"

Exited == pc = "exit"
ExitedNonZero == pc = "exit" /\ exit_code \notin {-1, 0}

\* the gates as the specification words them
SummariserSupplied == Truthy(args.openai_key)
DeckSupplied == Truthy(args.anki_deck)
DocsBothSupplied == Truthy(args.doc_id) /\ Truthy(args.service_account_key)
DocsNoneSupplied == ~Truthy(args.doc_id) /\ ~Truthy(args.service_account_key)
DocsOneSupplied == ~DocsBothSupplied /\ ~DocsNoneSupplied
AllSupplied == SummariserSupplied /\ DeckSupplied /\ DocsBothSupplied

\* the problem whose block is document[j], whose card is notes[j]
IsWrite(op, c) == c.op = op /\ c.out = "returned"
AppendedProblem(j) == SelectSeq(calls, LAMBDA c : IsWrite("append_to_doc", c))[j].k
NotedProblem(j) == SelectSeq(calls, LAMBDA c : IsWrite("add_note_to_anki", c))[j].k

StartsWith(s, t) == Len(t) <= Len(s) /\ SubSeq(s, 1, Len(t)) = t
EndsWith(s, t) == Len(t) <= Len(s) /\ SubSeq(s, Len(s) - Len(t) + 1, Len(s)) = t

ConfigErrorMessage ==
    "error: Both --doc-id and --service-account-key must be provided to enable Google Docs updates."
ConfigErrorPrinted == \E n \in DOMAIN printed : printed[n] = ConfigErrorMessage
ErrorPrintedLast ==
    /\ printed # <<>>
    /\ \/ StartsWith(printed[Len(printed)], "error: ")
       \/ StartsWith(printed[Len(printed)], "Traceback")

(***************************************************************************)
(* C1.  If the listing call fails, the run ends at once with a non-zero    *)
(* exit status: the listing is the only call ever made in that run (no     *)
(* detail fetch, no summarizer call, no deck creation, no document append, *)
(* no card add).                                                           *)
(***************************************************************************)
ListingFailed == Failed("get_recent_solved_problems", 0)

C1_ListingFailureIsFatal ==
    ListingFailed =>
        /\ ExitedNonZero
        /\ Len(calls) = 1
        /\ MadeAny(ProblemOps \cup {"ensure_deck_exists"}) = {}
        /\ document = <<>> /\ notes = <<>> /\ decks = {}

C1_Witness == ListingFailed /\ Exited /\ AllSupplied

(***************************************************************************)
(* C2.  Whenever exactly one of the document id and the credential path is *)
(* supplied, the run never ends with exit status 0 and no problem is       *)
(* processed, whatever the listing returns.                                *)
(***************************************************************************)
C2_HalfDocsConfigAlwaysFails ==
    DocsOneSupplied =>
        /\ exit_code # 0
        /\ MadeAny(ProblemOps) = {}
        /\ document = <<>> /\ notes = <<>>

(***************************************************************************)
(* C3.  If the listing returns zero problems, the run ends with exit       *)
(* status 0 and the listing is the only call it makes: no deck creation,   *)
(* no document append, no card add, no detail fetch, no summarizer call.   *)
(***************************************************************************)
ListedNothing == Succeeded("get_recent_solved_problems", 0) /\ problems = <<>>

C3_EmptyListingEndsQuietly ==
    ListedNothing =>
        /\ Exited /\ exit_code = 0
        /\ Len(calls) = 1
        /\ MadeAny(ProblemOps \cup {"ensure_deck_exists"}) = {}
        /\ document = <<>> /\ notes = <<>> /\ decks = {}

C3_Witness == ListedNothing /\ Exited /\ AllSupplied

(***************************************************************************)
(* C4.  A run that has ended has exit status 0 exactly when it found       *)
(* nothing to do or processed every listed problem with every enabled step *)
(* succeeding; a run in which the configuration error was raised or a      *)
(* fatal call (listing, deck creation, summarization, document append,     *)
(* card add) failed has a non-zero exit status and the error message is    *)
(* the last thing it printed.                                              *)
(***************************************************************************)
ProcessedAll ==
    /\ problems # <<>>
    /\ \A n \in DOMAIN calls : calls[n].out # "raised"
    /\ DeckSupplied => Succeeded("ensure_deck_exists", 0)
    /\ \A k \in 1..Len(problems) :
         /\ Succeeded("get_problem_details", k)
         /\ SummariserSupplied => Succeeded("summarize_problem", k)
         /\ DocsBothSupplied => Succeeded("append_to_doc", k)
         /\ DeckSupplied => Succeeded("add_note_to_anki", k)

FatalOps == {"get_recent_solved_problems", "ensure_deck_exists", "summarize_problem",
             "append_to_doc", "add_note_to_anki"}
FatalFailure == \E n \in MadeAny(FatalOps) : calls[n].out = "raised"

C5_DetailFailureContinues ==
    \A k \in 1..(Len(problems) - 1) :
        (Exited /\ Failed("get_problem_details", k))
            => Made("get_problem_details", k + 1) # {}

(***************************************************************************)
(* C6.  When the detail fetch of a problem returns absent the run does not *)
(* abort: the problem goes on to the next step with the minimal Problem    *)
(* and an empty description, the difficulty in its document block and on   *)
(* its card front is the empty string, and in a run where nothing fails    *)
(* the problem after it is fetched as well.                                *)
(***************************************************************************)
DetailsAbsent(k) == \E n \in Made("get_problem_details", k) : calls[n].out = "none"

C6_AbsentDetailsFallBack ==
    /\ \A k \in 1..Len(problems) : DetailsAbsent(k) =>
         /\ calls[Len(calls)] = Call("get_problem_details", k, "none")
              => exit_code \in {-1, 0}
         /\ (k = idx /\ pc = "summarise") =>
              /\ detailed_problem = problems[k]
              /\ description_html = ""
              /\ exit_code = -1
         /\ (Exited /\ exit_code = 0 /\ k < Len(problems))
              => Made("get_problem_details", k + 1) # {}
    /\ \A j \in DOMAIN document : DetailsAbsent(AppendedProblem(j)) =>
         StartsWith(document[j], "\n### " \o problems[AppendedProblem(j)].title \o " ()\n")
    /\ \A j \in DOMAIN notes : DetailsAbsent(NotedProblem(j)) =>
         notes[j].Front = problems[NotedProblem(j)].title \o " ()"

C6_Witness ==
    /\ Len(problems) = 2 /\ DetailsAbsent(1)
    /\ Len(document) >= 1 /\ Len(notes) >= 1
    /\ Made("get_problem_details", 2) # {}

(***************************************************************************)
(* C7.  With no language-model credential no call to the summarizer is     *)
(* made and the summary text in every document block and on every card     *)
(* back is the problem's bare title; with a credential the summarizer is   *)
(* called exactly once for each problem that gets past the summarization   *)
(* step and never more than once for any problem.                          *)
(***************************************************************************)
PastSummarise(k) ==
    \/ k < idx
    \/ k = idx /\ pc \in {"append", "note"}
    \/ Made("append_to_doc", k) # {} \/ Made("add_note_to_anki", k) # {}
    \/ Exited /\ exit_code = 0

C7_SummarisationGate ==
    /\ ~SummariserSupplied =>
         /\ MadeOp("summarize_problem") = {}
         /\ \A j \in DOMAIN document :
              EndsWith(document[j],
                       "Summary:\n" \o problems[AppendedProblem(j)].title \o "\n")
         /\ \A j \in DOMAIN notes :
              notes[j].Back = problems[NotedProblem(j)].title \o "\n\nURL: "
                                  \o problems[NotedProblem(j)].url
    /\ SummariserSupplied =>
         \A k \in 1..Len(problems) :
            /\ Cardinality(Made("summarize_problem", k)) <= 1
            /\ PastSummarise(k) => Cardinality(Made("summarize_problem", k)) = 1

C7_Witness ==
    ~SummariserSupplied /\ Exited /\ exit_code = 0 /\ Len(document) = 2 /\ Len(notes) = 2

(***************************************************************************)
(* C8.  If the summarization of a problem fails, the run ends there with a *)
(* non-zero exit status: the failed call is the last call of the run, no   *)
(* document append and no card add is made for that problem, and no call   *)
(* is made for a later problem.                                            *)
(***************************************************************************)
C8_SummariseFailureAborts ==
    \A n \in MadeOp("summarize_problem") : calls[n].out = "raised" =>
        /\ ExitedNonZero
        /\ n = Len(calls)
        /\ Made("append_to_doc", calls[n].k) = {}
        /\ Made("add_note_to_anki", calls[n].k) = {}
        /\ \A m \in DOMAIN calls : calls[m].k <= calls[n].k

C8_Witness ==
    /\ Failed("summarize_problem", 1) /\ Len(problems) = 2
    /\ DocsBothSupplied /\ DeckSupplied /\ Exited

(***************************************************************************)
(* C9.  A document append is made only in runs where both the document id  *)
(* and the credential path are supplied; such a run that ends with status  *)
(* 0 has made exactly one append per listed problem; a run where neither   *)
(* is supplied makes no append and raises no configuration error.          *)
(***************************************************************************)
C9_DocumentGate ==
    /\ MadeOp("append_to_doc") # {} => DocsBothSupplied
    /\ (DocsBothSupplied /\ Exited /\ exit_code = 0) =>
         /\ \A k \in 1..Len(problems) : Cardinality(Made("append_to_doc", k)) = 1
         /\ Len(document) = Len(problems)
    /\ DocsNoneSupplied =>
         /\ MadeOp("append_to_doc") = {}
         /\ document = <<>>
         /\ ~ConfigErrorPrinted

C9_Witness == DocsBothSupplied /\ Exited /\ exit_code = 0 /\ Len(document) = 2

(***************************************************************************)
(* C10.  With a deck name supplied, a successful deck-ensure call precedes *)
(* every detail fetch, summarizer call, document append and card add, and  *)
(* a failed deck-ensure call ends the run with a non-zero exit status and  *)
(* no problem processed; with no deck name, no deck-ensure call and no     *)
(* card add is ever made.                                                  *)
(***************************************************************************)
C10_FlashcardGate ==
    /\ DeckSupplied =>
         \A n \in MadeAny(ProblemOps) :
            \E m \in 1..(n - 1) : calls[m] = Call("ensure_deck_exists", 0, "returned")
    /\ Failed("ensure_deck_exists", 0) =>
         /\ ExitedNonZero
         /\ calls[Len(calls)].op = "ensure_deck_exists"
         /\ MadeAny(ProblemOps) = {}
         /\ document = <<>> /\ notes = <<>>
    /\ ~DeckSupplied =>
         /\ MadeOp("ensure_deck_exists") = {}
         /\ MadeOp("add_note_to_anki") = {}
         /\ decks = {} /\ notes = <<>>

C10_Witness == DeckSupplied /\ Len(notes) = 2 /\ Exited

(***************************************************************************)
(* C11.  Once a fatal call has failed (summarization, document append or   *)
(* card add) the run has ended with a non-zero exit status and the failed  *)
(* call stays the last call of the run: no further call, no retry.  No     *)
(* step ever removes or rewrites a block already appended or a card        *)
(* already added: the earlier writes stand.                                *)
(***************************************************************************)
PerProblemFatalOps == {"summarize_problem", "append_to_doc", "add_note_to_anki"}
PerProblemFatal == \E n \in MadeAny(PerProblemFatalOps) : calls[n].out = "raised"

IsPrefix(s, t) == Len(s) <= Len(t) /\ SubSeq(t, 1, Len(s)) = s

C11_FatalStopsEverything ==
    [][ /\ PerProblemFatal => calls' = calls /\ document' = document /\ notes' = notes
        /\ PerProblemFatal' =>
             /\ pc' = "exit" /\ exit_code' \notin {-1, 0}
             /\ calls'[Len(calls')].out = "raised"
             /\ \A n \in 1..(Len(calls') - 1) : calls'[n].out # "raised"
        /\ IsPrefix(document, document')
        /\ IsPrefix(notes, notes') ]_vars

C11_Witness ==
    /\ Failed("add_note_to_anki", 2) /\ Exited
    /\ Len(document) = 2 /\ Len(notes) = 1

(***************************************************************************)
(* Vocabulary for the functions called on their own.                       *)
(***************************************************************************)
ListingReturned ==
    last.fn = "get_recent_solved_problems" /\ last.done /\ ~last.raised
Given == last.arg.data
Returned == last.value

Occurrences(slug) == {n \in DOMAIN Given : Given[n].titleSlug = slug}
AcceptedAt(n) == Given[n].statusDisplay \in {"Accepted", "ACCEPTED"}
PassesAt(n) == AcceptedAt(n) /\ Given[n].title # None
Least(S) == CHOOSE x \in S : \A y \in S : x <= y

(***************************************************************************)
(* C12 as stated.  get_recent_solved_problems returns each slug at most    *)
(* once, and the returned problems are in the order of each slug's first   *)
(* occurrence among the submissions.                                       *)
(***************************************************************************)
C12_FirstOccurrenceOrder ==
    ListingReturned =>
        /\ \A i, j \in DOMAIN Returned : i # j => Returned[i].slug # Returned[j].slug
        /\ \A i, j \in DOMAIN Returned : i < j =>
             Least(Occurrences(Returned[i].slug)) < Least(Occurrences(Returned[j].slug))

(***************************************************************************)
(* C12 as amended.  get_recent_solved_problems returns each slug at most   *)
(* once, and the returned problems are in the order of each slug's first   *)
(* occurrence among the submissions that pass the filter (accepted status, *)
(* slug and title present); the problem carries that occurrence's title.   *)
(***************************************************************************)
FirstPassing(slug) == Least({n \in Occurrences(slug) : PassesAt(n)})

C12_FirstAcceptedOccurrenceOrder ==
    ListingReturned =>
        /\ \A i, j \in DOMAIN Returned : i # j => Returned[i].slug # Returned[j].slug
        /\ \A i \in DOMAIN Returned :
             /\ \E n \in Occurrences(Returned[i].slug) : PassesAt(n)
             /\ Returned[i].title = Given[FirstPassing(Returned[i].slug)].title
        /\ \A i, j \in DOMAIN Returned : i < j =>
             FirstPassing(Returned[i].slug) < FirstPassing(Returned[j].slug)

C12_Witness ==
    /\ ListingReturned /\ Len(Given) = 3 /\ Len(Returned) = 2
    /\ PassesAt(1) /\ PassesAt(2) /\ PassesAt(3)
    /\ Given[1].titleSlug = Given[3].titleSlug
    /\ Given[1].titleSlug # Given[2].titleSlug

(***************************************************************************)
(* C13 as stated.  A returned problem always has a submission whose status *)
(* contains "accept" in some case, a slug with only "Wrong Answer"         *)
(* submissions is never returned, and a slug is returned whenever one of   *)
(* its submissions has status "Accepted".                                  *)
(***************************************************************************)
C13_AcceptedAlwaysReturned ==
    ListingReturned =>
        /\ \A i \in DOMAIN Returned : \E n \in Occurrences(Returned[i].slug) : AcceptedAt(n)
        /\ \A n \in DOMAIN Given : Given[n].statusDisplay = "Accepted" =>
             \E i \in DOMAIN Returned : Returned[i].slug = Given[n].titleSlug

(***************************************************************************)
(* C13 as amended.  A returned problem always has a submission whose       *)
(* status contains "accept" in some case, a slug with only "Wrong Answer"  *)
(* submissions is never returned, and a slug is returned whenever one of   *)
(* its submissions has status "Accepted" and a non-empty title.            *)
(***************************************************************************)
C13_AcceptedWithTitleReturned ==
    ListingReturned =>
        /\ \A i \in DOMAIN Returned : \E n \in Occurrences(Returned[i].slug) : AcceptedAt(n)
        /\ \A n \in DOMAIN Given :
             (Given[n].statusDisplay = "Accepted" /\ Given[n].title # None) =>
                \E i \in DOMAIN Returned : Returned[i].slug = Given[n].titleSlug

C13_Witness ==
    /\ ListingReturned /\ Len(Given) = 2 /\ Len(Returned) = 1
    /\ Given[1].statusDisplay = "Wrong Answer"
    /\ Given[2].statusDisplay = "Accepted" /\ Given[2].title # None
    /\ Given[1].titleSlug # Given[2].titleSlug

(***************************************************************************)
(* C18 as stated.  get_problem_details returns absent, not an error, when  *)
(* the answer reports no question, and it raises only when the transport   *)
(* fails or the response cannot be parsed.                                 *)
(***************************************************************************)
DetailsCalled == last.fn = "get_problem_details" /\ last.done
NoSuchQuestion(resp) == ~resp.fails /\ ~resp.errors /\ resp.data = <<>>

EnsuredAgain == last.fn = "ensure_deck_exists" /\ last.again

C14_SecondEnsureNeverRaises == EnsuredAgain => ~last.raised

(***************************************************************************)
(* C14 as amended.  A second ensure_deck_exists call with the name of a    *)
(* deck that an earlier call created does not raise when the flashcard     *)
(* service answers the second createDeck request with a result or with a   *)
(* "deck already exists" error; a transport failure or another error of    *)
(* the second request is raised.                                           *)
(***************************************************************************)
AlreadyExistsErrors == {"Deck already exists", "DECK ALREADY EXISTS: LeetCode"}
ToleratedAnswer(resp) ==
    ~resp.fails /\ (resp.error = None \/ resp.error \in AlreadyExistsErrors)

C14_SecondEnsureToleratesExisting ==
    EnsuredAgain => (last.raised <=> ~ToleratedAnswer(last.resp))

C14_Witness ==
    EnsuredAgain /\ last.resp = AnkiError("Deck already exists") /\ ~last.raised

(***************************************************************************)
(* C15.  A summarize_problem call made with no credential raises and sends *)
(* no completion request, whatever calls were made before it; a credential *)
(* passed to an earlier call is not used by a later call that passes none. *)
(***************************************************************************)
C15_NoCredentialNoRequest ==
    (last.fn = "summarize_problem" /\ ~Truthy(last.openai_api_key))
        => (last.raised /\ ~last.sent)

(***************************************************************************)
(* C19.  ensure_deck_exists swallows an error of the createDeck request    *)
(* only when the message contains "deck already exists" in some case; a    *)
(* transport failure and every other error reported by the service is      *)
(* raised to the caller with its message.                                  *)
(***************************************************************************)
C19_OnlyAlreadyExistsSwallowed ==
    last.fn = "ensure_deck_exists" =>
        /\ last.resp.fails =>
             (last.raised /\ last.msg = "Failed to call AnkiConnect: " \o last.resp.exc)
        /\ (~last.resp.fails /\ Truthy(last.resp.error)) =>
             IF last.resp.error \in AlreadyExistsErrors
             THEN ~last.raised
             ELSE last.raised /\ last.msg = "AnkiConnect error: " \o last.resp.error
        /\ (~last.resp.fails /\ ~Truthy(last.resp.error)) => ~last.raised

C19_Witness ==
    /\ last.fn = "ensure_deck_exists" /\ last.resp = AnkiError("deck exists")
    /\ last.raised

(***************************************************************************)
(* C16.  The calls of a run are made one after the other in this order:    *)
(* the listing first and the deck-ensure after it, then the problems in    *)
(* listing order with none skipped, and for each problem the detail fetch, *)
(* then the summarizer call, then the document append, then the card add;  *)
(* no call for a problem follows a call for a later problem, and the       *)
(* blocks and cards written are those of the listed problems in order.     *)
(***************************************************************************)
Rank(op) ==
    CASE op = "get_recent_solved_problems" -> 1
      [] op = "ensure_deck_exists" -> 2
      [] op = "get_problem_details" -> 3
      [] op = "summarize_problem" -> 4
      [] op = "append_to_doc" -> 5
      [] op = "add_note_to_anki" -> 6

C16_CallsInOrder ==
    /\ \A m, n \in DOMAIN calls : m < n =>
         /\ calls[m].k <= calls[n].k
         /\ calls[m].k = calls[n].k => Rank(calls[m].op) < Rank(calls[n].op)
    /\ \A n \in DOMAIN calls :
         /\ calls[n].op \in ProblemOps <=> calls[n].k \in 1..Len(problems)
         /\ calls[n].op \notin ProblemOps <=> calls[n].k = 0
         /\ calls[n].k >= 1 => Made("get_problem_details", calls[n].k) # {}
         /\ calls[n].k > 1 => Succeeded("get_problem_details", calls[n].k - 1)
    /\ \A j \in DOMAIN document :
         StartsWith(document[j], "\n### " \o problems[AppendedProblem(j)].title \o " (")
    /\ \A j \in DOMAIN notes :
         StartsWith(notes[j].Front, problems[NotedProblem(j)].title \o " (")

C16_Witness ==
    /\ Exited /\ exit_code = 0 /\ AllSupplied /\ Len(problems) = 2
    /\ Len(calls) = 10

(***************************************************************************)
(* C17.  The difficulty written into a problem's document block and card   *)
(* front is the enriched Problem's difficulty when the detail fetch        *)
(* succeeded and the empty string otherwise, and it is blank when the      *)
(* enrichment returned no difficulty value.                                *)
(***************************************************************************)
EffectiveDifficulty ==
    IF DetailsAbsent(idx) \/ detailed_problem.difficulty = None
    THEN ""
    ELSE detailed_problem.difficulty

C17_RenderedDifficulty ==
    [][ /\ Len(document') > Len(document) =>
             StartsWith(document'[Len(document')],
                        "\n### " \o problems[idx].title \o " (" \o EffectiveDifficulty \o ")\n")
        /\ Len(notes') > Len(notes) =>
             notes'[Len(notes')].Front
                 = problems[idx].title \o " (" \o EffectiveDifficulty \o ")" ]_vars

(***************************************************************************)
(* C20.  Every fatal error raised while a problem is processed (a failed   *)
(* summarization, document append or card add) leaves as the last thing    *)
(* printed a message that contains the title of that problem.              *)
(***************************************************************************)
C20_FatalMessageNamesProblem ==
    \A n \in MadeAny(PerProblemFatalOps) : calls[n].out = "raised" =>
        /\ printed # <<>>
        /\ Contains(printed[Len(printed)], problems[calls[n].k].title)

(***************************************************************************)
(* C21.  Every run terminates, given that each external call returns or    *)
(* fails: it reaches the exit either with the done outcome (status 0) or   *)
(* at its first fatal error (a non-zero status, no call made after a call  *)
(* that raised), and for each listed problem at most one detail fetch, one *)
(* summarizer call, one document append and one card add is made.          *)
(***************************************************************************)
AtMostOncePerProblem ==
    \A k \in 1..Len(problems) : \A op \in ProblemOps : Cardinality(Made(op, k)) <= 1

EndsDoneOrAtFirstFatal ==
    /\ Exited => exit_code \in {0, 1, 2}
    /\ \A n \in DOMAIN calls : calls[n].out = "raised" =>
         /\ n = Len(calls)
         /\ ExitedNonZero
    /\ Exited /\ exit_code = 0 =>
         \/ problems = <<>>
         \/ \A k \in 1..Len(problems) : Made("get_problem_details", k) # {}

C21_TerminatesProcessingOnce ==
    /\ <>Exited
    /\ [](AtMostOncePerProblem /\ EndsDoneOrAtFirstFatal)

C21_Witness ==
    /\ Exited /\ AllSupplied /\ Len(problems) = 2
    /\ \A op \in ProblemOps : Cardinality(Made(op, 1)) = 1 /\ Cardinality(Made(op, 2)) = 1
    /\ Failed("add_note_to_anki", 2)

(***************************************************************************)
(* C22.  With both sinks enabled, in every state of a run the problems     *)
(* appended to the document are the first problems of the listing in       *)
(* order, the problems added as cards are the first problems of the        *)
(* listing in order, and the document holds as many problems as the deck   *)
(* or exactly one more; a run that aborted on a failed card add has        *)
(* exactly one problem in the document without a card, the one whose card  *)
(* add failed.                                                             *)
(***************************************************************************)
BothSinksEnabled == DocsBothSupplied /\ DeckSupplied

CardAddAborted == \E k \in 1..Len(problems) : Failed("add_note_to_anki", k)

C22_SinksArePrefixes ==
    BothSinksEnabled =>
        /\ Len(document) <= Len(problems)
        /\ Len(notes) <= Len(problems)
        /\ \A j \in DOMAIN document :
             /\ AppendedProblem(j) = j
             /\ StartsWith(document[j], "\n### " \o problems[j].title \o " (")
        /\ \A j \in DOMAIN notes :
             /\ NotedProblem(j) = j
             /\ StartsWith(notes[j].Front, problems[j].title \o " (")
        /\ Len(document) \in {Len(notes), Len(notes) + 1}
        /\ \A k \in 1..Len(problems) : Failed("add_note_to_anki", k) =>
             /\ Exited
             /\ Len(document) = k
             /\ Len(notes) = k - 1

C22_Witness ==
    /\ BothSinksEnabled /\ Exited
    /\ Failed("add_note_to_anki", 2)
    /\ Len(document) = 2 /\ Len(notes) = 1

(***************************************************************************)
(* C23.  For every problem written to both sinks in a run, the document    *)
(* block and the card carry the same title, the same rendered difficulty,  *)
(* the same URL and the same summary text; the title and the URL are those *)
(* of the Problem the listing returned, also when the detail fetch         *)
(* succeeded and reported another title.                                   *)
(***************************************************************************)
\* the difficulty text between the brackets of a card front headed by title
FrontDifficulty(front, title) == SubSeq(front, Len(title) + 3, Len(front) - 1)

\* the summary text of a card back that ends with the URL line
BackSummary(back, url) == SubSeq(back, 1, Len(back) - Len("\n\nURL: " \o url))

SameContent(block, note, problem) ==
    LET d == FrontDifficulty(note.Front, problem.title)
        s == BackSummary(note.Back, problem.url)
    IN  /\ note.Front = problem.title \o " (" \o d \o ")"
        /\ note.Back = s \o "\n\nURL: " \o problem.url
        /\ block = "\n### " \o problem.title \o " (" \o d \o ")\n"
                       \o "URL: " \o problem.url \o "\n\n"
                       \o "Summary:\n" \o s \o "\n"

C23_SinksCarrySameContent ==
    \A j \in DOMAIN document : \A i \in DOMAIN notes :
        AppendedProblem(j) = NotedProblem(i) =>
            SameContent(document[j], notes[i], problems[NotedProblem(i)])

C23_Witness ==
    /\ Len(document) = 2 /\ Len(notes) = 2
    /\ AppendedProblem(2) = 2 /\ NotedProblem(2) = 2
    /\ \E n \in Made("get_problem_details", 2) : calls[n].out = "returned"
    /\ \E n \in Made("summarize_problem", 2) : calls[n].out = "returned"
    /\ detailed_problem.title # problems[2].title

=============================================================================
